---- MODULE Spec2Model ----
(***************************************************************************)
(* Model of the Kapital Bank ingestion pipeline                            *)
(* (src/data/kb/kapital_bank_scraper.py): text normalisation, coordinate   *)
(* validation, record transformation with in-batch deduplication, the      *)
(* upsert loop of save_locations_to_db over one psycopg2 connection, and   *)
(* the run_scraper loop over the configured endpoints.                     *)
(*                                                                         *)
(* Text is a sequence of one-character strings.  A coordinate is an        *)
(* integer number of thousandths of a degree (Scale), which is exact for   *)
(* every decimal literal with at most three fractional digits.             *)
(***************************************************************************)
EXTENDS Integers, Sequences, FiniteSets, TLC

\* ------------------------------------------------------------------ bounds
\* longest raw batch one fetch returns in the pipeline specifications
MaxBatch == 2
\* number of configured endpoints that are modelled (the source lists five)
NumEndpoints == 2
\* longest raw batch in the transformer-only specification
MaxRawT == 1
\* longest text in the normalisation-only specification
MaxText == 3

\* thousandths of a degree per degree
Scale == 10 * 10 * 10

\* ------------------------------------------------------- Python values
\* A JSON value of a raw record: a missing key, null, a string, or a float
\* (v, in thousandths).
Missing == [t |-> "missing", s |-> << >>, v |-> 0]
NoneV   == [t |-> "none", s |-> << >>, v |-> 0]
S(str)  == [t |-> "str", s |-> str, v |-> 0]
Num(n)  == [t |-> "num", s |-> << >>, v |-> n]

\* the NUL character (chr(0)), which psycopg2 refuses in a string literal
NUL == "NUL"

\* dict.get(key): a missing key reads as None
Get(item, key) == IF item[key].t = "missing" THEN NoneV ELSE item[key]

\* dict.get(key, ''): a missing key reads as the empty string, null as None
GetOrEmpty(item, key) == IF item[key].t = "missing" THEN S(<< >>) ELSE item[key]

\* Python truthiness of a JSON value
Truthy(val) ==
    CASE val.t = "str" -> val.s # << >>
      [] val.t = "num" -> val.v # 0
      [] OTHER -> FALSE

\* ------------------------------------------------------- text helpers
Digits == <<"0", "1", "2", "3", "4", "5", "6", "7", "8", "9">>

IsDigit(c) == \E k \in 1..10 : Digits[k] = c

DigitVal(c) == (CHOOSE k \in 1..10 : Digits[k] = c) - 1

\* str.isspace for one character
IsSpace(c) == c \in {" ", "\t", "\n"}

UpperCase == <<"A", "B", "C", "D", "E", "F", "G", "H", "I", "J", "K", "L", "M",
               "N", "O", "P", "Q", "R", "S", "T", "U", "V", "W", "X", "Y", "Z">>

LowerCase == <<"a", "b", "c", "d", "e", "f", "g", "h", "i", "j", "k", "l", "m",
               "n", "o", "p", "q", "r", "s", "t", "u", "v", "w", "x", "y", "z">>

\* str.lower for one character
LowerChar(c) ==
    IF \E k \in 1..26 : UpperCase[k] = c
    THEN LowerCase[CHOOSE k \in 1..26 : UpperCase[k] = c]
    ELSE c

Lower(str) == [k \in 1..Len(str) |-> LowerChar(str[k])]

RECURSIVE LStrip(_)
LStrip(str) ==
    IF str = << >> THEN << >>
    ELSE IF IsSpace(Head(str)) THEN LStrip(Tail(str)) ELSE str

RECURSIVE RStrip(_)
RStrip(str) ==
    IF str = << >> THEN << >>
    ELSE IF IsSpace(str[Len(str)]) THEN RStrip(SubSeq(str, 1, Len(str) - 1))
    ELSE str

\* str.strip()
Strip(str) == RStrip(LStrip(str))

\* re.sub(r'\s+', ' ', text): every maximal run of whitespace becomes " "
RECURSIVE CollapseSpaces(_)
CollapseSpaces(str) ==
    IF str = << >> THEN << >>
    ELSE IF IsSpace(Head(str))
         THEN <<" ">> \o CollapseSpaces(LStrip(Tail(str)))
         ELSE <<Head(str)>> \o CollapseSpaces(Tail(str))

\* the character class [.,;:!?()"'-]
Punctuation == {".", ",", ";", ":", "!", "?", "(", ")", "\"", "'", "-"}

\* re.sub(r'[.,;:!?()"\'-]', '', text)
RemovePunctuation(str) == SelectSeq(str, LAMBDA c : c \notin Punctuation)

\* KapitalBankScraper.normalize_text
normalize_text(text) ==
    IF text = << >> THEN << >>
    ELSE RemovePunctuation(CollapseSpaces(Strip(Lower(text))))

\* normalize_text called with a Python value: `if not text` answers "" for
\* None as for the empty string
NormalizeArg(val) == IF Truthy(val) THEN normalize_text(val.s) ELSE << >>

\* str(value) for a JSON value
RECURSIVE NatToStr(_)
NatToStr(n) ==
    IF n < 10 THEN <<Digits[n + 1]>>
    ELSE NatToStr(n \div 10) \o <<Digits[(n % 10) + 1]>>

FracToStr(m) ==
    \* m in 0..Scale-1, printed as three digits without trailing zeros
    LET d3 == <<Digits[(m \div 100) + 1], Digits[((m \div 10) % 10) + 1],
                Digits[(m % 10) + 1]>>
    IN  IF m % 100 = 0 THEN SubSeq(d3, 1, 1)
        ELSE IF m % 10 = 0 THEN SubSeq(d3, 1, 2) ELSE d3

FloatToStr(n) ==
    LET a == IF n < 0 THEN 0 - n ELSE n
    IN  (IF n < 0 THEN <<"-">> ELSE << >>)
        \o NatToStr(a \div Scale) \o <<".">> \o FracToStr(a % Scale)

PyStr(val) ==
    CASE val.t = "str" -> val.s
      [] val.t = "num" -> FloatToStr(val.v)
      [] OTHER -> <<"N", "o", "n", "e">>

\* ------------------------------------------------------- float()
RECURSIVE DigitsToNat(_)
DigitsToNat(str) ==
    IF str = << >> THEN 0
    ELSE 10 * DigitsToNat(SubSeq(str, 1, Len(str) - 1)) + DigitVal(str[Len(str)])

AllDigits(str) == \A k \in 1..Len(str) : IsDigit(str[k])

Pow10(k) == CASE k = 0 -> 1 [] k = 1 -> 10 [] k = 2 -> 100 [] OTHER -> 1000

\* float(text) for the plain decimal grammar [sign] digits [. digits] with
\* optional surrounding whitespace and at most three fractional digits;
\* any other text raises ValueError (ok = FALSE).
ParseFloat(text) ==
    LET body  == Strip(text)
        neg   == body # << >> /\ Head(body) = "-"
        signd == body # << >> /\ Head(body) \in {"-", "+"}
        mag   == IF signd THEN Tail(body) ELSE body
        dots  == {k \in 1..Len(mag) : mag[k] = "."}
        dot   == IF dots = {} THEN Len(mag) + 1 ELSE CHOOSE k \in dots : TRUE
        ip    == SubSeq(mag, 1, dot - 1)
        fp    == SubSeq(mag, dot + 1, Len(mag))
        good  == /\ Cardinality(dots) <= 1
                 /\ AllDigits(ip) /\ AllDigits(fp)
                 /\ Len(ip) + Len(fp) > 0
                 /\ Len(fp) <= 3
        absv  == DigitsToNat(ip) * Scale + DigitsToNat(fp) * Pow10(3 - Len(fp))
    IN  IF good THEN [ok |-> TRUE, v |-> IF neg THEN 0 - absv ELSE absv]
        ELSE [ok |-> FALSE, v |-> 0]

\* float(value): a float is returned as it is, a string is parsed, None
\* raises TypeError (ok = FALSE)
PyFloat(val) ==
    CASE val.t = "num" -> [ok |-> TRUE, v |-> val.v]
      [] val.t = "str" -> ParseFloat(val.s)
      [] OTHER -> [ok |-> FALSE, v |-> 0]

\* ------------------------------------------------- coordinate validation
\* the absent coordinate (Python None); every present coordinate is an
\* integer, so the two are told apart by the tag
Absent == [some |-> FALSE, v |-> 0]
Some(n) == [some |-> TRUE, v |-> n]

\* variant: the upper bounds are exclusive
InBoundsExclusive(lat, lon) ==
    /\ 38 * Scale <= lat /\ lat < 42 * Scale
    /\ 44 * Scale <= lon /\ lon < 52 * Scale

\* 38 <= lat <= 42 and 44 <= lon <= 52
InBounds(lat, lon) ==
    /\ 38 * Scale <= lat /\ lat <= 42 * Scale
    /\ 44 * Scale <= lon /\ lon <= 52 * Scale

\* variant: a rejected pair clears lon only
CoordinatesKeepLat(item) ==
    IF Truthy(Get(item, "lat")) /\ Truthy(Get(item, "lng"))
    THEN LET la == PyFloat(item.lat)
             lo == PyFloat(item.lng)
         IN  IF ~la.ok \/ ~lo.ok
             THEN [lat |-> Absent, lon |-> Absent]
             ELSE IF ~InBounds(la.v, lo.v)
                  THEN [lat |-> Some(la.v), lon |-> Absent]
                  ELSE [lat |-> Some(la.v), lon |-> Some(lo.v)]
    ELSE [lat |-> Absent, lon |-> Absent]

\* lines 235-249 of process_location_data: the (lat, lon) pair of one item
Coordinates(item) ==
    IF Truthy(Get(item, "lat")) /\ Truthy(Get(item, "lng"))
    THEN LET la == PyFloat(item.lat)
             lo == PyFloat(item.lng)
         IN  IF ~la.ok \/ ~lo.ok
             THEN [lat |-> Absent, lon |-> Absent]
             ELSE IF ~InBounds(la.v, lo.v)
                  THEN [lat |-> Absent, lon |-> Absent]
                  ELSE [lat |-> Some(la.v), lon |-> Some(lo.v)]
    ELSE [lat |-> Absent, lon |-> Absent]

\* ------------------------------------------------------- configuration
\* self.endpoints (name, company, type), in configured order
AllEndpoints ==
    << [name |-> "Branch locations", company |-> "Kapital Bank", type |-> "branch"],
       [name |-> "ATM locations", company |-> "Kapital Bank", type |-> "atm"],
       [name |-> "Cash-in machines", company |-> "Kapital Bank", type |-> "cash_in"],
       [name |-> "Digital centers", company |-> "Kapital Bank", type |-> "digital_center"],
       [name |-> "Payment terminals", company |-> "Kapital Bank", type |-> "payment_terminal"] >>

Endpoints == SubSeq(AllEndpoints, 1, NumEndpoints)

\* ------------------------------------------------------- transformer
\* variant: the field is not stripped
CleanFieldNoStrip(item, key) == PyStr(GetOrEmpty(item, key))

\* name = str(item.get('name', '')).strip()
CleanField(item, key) == Strip(PyStr(GetOrEmpty(item, key)))

\* variant: the key is built from the cleaned, not the normalised, fields
NormalizedKeyExact(item, endpoint) ==
    << endpoint.company, endpoint.type,
       CleanField(item, "name"), CleanField(item, "address") >>

\* normalized_key of one item (lines 261-266)
NormalizedKey(item, endpoint) ==
    << endpoint.company, endpoint.type,
       normalize_text(CleanField(item, "name")),
       normalize_text(CleanField(item, "address")) >>

\* the location dict built at lines 276-284
Location(item, endpoint) ==
    LET c == Coordinates(item)
    IN  [ company |-> endpoint.company,
          type |-> endpoint.type,
          name |-> CleanField(item, "name"),
          address |-> CleanField(item, "address"),
          lat |-> c.lat,
          lon |-> c.lon,
          external_id |-> PyStr(GetOrEmpty(item, "id")) ]

\* variant: a new location is put in front of the collected ones
RECURSIVE ProcessLoopPrepend(_, _, _, _)
ProcessLoopPrepend(rest, endpoint, processed, seen) ==
    IF rest = << >> THEN processed
    ELSE LET item == Head(rest)
             key  == NormalizedKey(item, endpoint)
         IN  IF CleanField(item, "name") = << >> \/ CleanField(item, "address") = << >>
             THEN ProcessLoopPrepend(Tail(rest), endpoint, processed, seen)
             ELSE IF key \in seen
                  THEN ProcessLoopPrepend(Tail(rest), endpoint, processed, seen)
                  ELSE ProcessLoopPrepend(Tail(rest), endpoint,
                                          <<Location(item, endpoint)>> \o processed,
                                          seen \cup {key})

\* the for loop of process_location_data over the remaining raw items, with
\* the locations and the keys collected so far
RECURSIVE ProcessLoop(_, _, _, _)
ProcessLoop(rest, endpoint, processed, seen) ==
    IF rest = << >> THEN processed
    ELSE LET item == Head(rest)
             key  == NormalizedKey(item, endpoint)
         IN  IF CleanField(item, "name") = << >> \/ CleanField(item, "address") = << >>
             THEN ProcessLoop(Tail(rest), endpoint, processed, seen)
             ELSE IF key \in seen
                  THEN ProcessLoop(Tail(rest), endpoint, processed, seen)
                  ELSE ProcessLoop(Tail(rest), endpoint,
                                   Append(processed, Location(item, endpoint)),
                                   seen \cup {key})

\* variant: a coordinate that float() refuses also makes the call raise
ProcessRaisesOnBadFormat(raw) ==
    \E k \in 1..Len(raw) :
        \/ ~raw[k].isdict
        \/ /\ Truthy(Get(raw[k], "lat")) /\ Truthy(Get(raw[k], "lng"))
           /\ ~PyFloat(raw[k].lat).ok \/ ~PyFloat(raw[k].lng).ok

\* process_location_data raises: item.get of an item that is no dict raises
\* AttributeError inside the try of the loop body, and the except branch
\* formats its warning with item.get('id', 'unknown'), which raises again,
\* outside any try
ProcessRaises(raw) == \E k \in 1..Len(raw) : ~raw[k].isdict

\* KapitalBankScraper.process_location_data, when it returns
process_location_data(raw, endpoint) == ProcessLoop(raw, endpoint, << >>, {})

\* ------------------------------------------------------- the store
\* the (company, type, name, address) columns, which the unique constraint
\* unique_company_type_name_address and ON CONFLICT compare
ConflictKey(r) == <<r.company, r.type, r.name, r.address>>

\* the row a location is inserted as
Row(loc) ==
    [ company |-> loc.company, type |-> loc.type, name |-> loc.name,
      address |-> loc.address, lat |-> loc.lat, lon |-> loc.lon ]

\* no two rows agree on the constrained columns
NoDuplicates(rows) ==
    \A r1, r2 \in rows : ConflictKey(r1) = ConflictKey(r2) => r1 = r2

HasNul(str) == \E k \in 1..Len(str) : str[k] = NUL

\* cur.execute(upsert_sql, location) raises: psycopg2 refuses a parameter
\* holding a NUL character (ValueError), and PostgreSQL refuses ON CONFLICT
\* (company, type, name, address) when no unique constraint matches it
StatementFails(loc, hasConstraint) ==
    \/ ~hasConstraint
    \/ HasNul(loc.name) \/ HasNul(loc.address)

\* variant: the update also stores the normalised name
DoUpdateRename(r, loc) ==
    [r EXCEPT !.lat = loc.lat, !.lon = loc.lon, !.name = normalize_text(loc.name)]

\* DO UPDATE SET lat = EXCLUDED.lat, lon = EXCLUDED.lon on the conflicting row
DoUpdate(r, loc) == [r EXCEPT !.lat = loc.lat, !.lon = loc.lon]

\* the rows the conflict target of a location matches
Conflicting(rows, loc) == {r \in rows : ConflictKey(r) = ConflictKey(Row(loc))}

\* variant: a conflicting row is deleted instead of updated
UpsertDelete(rows, loc) ==
    IF Conflicting(rows, loc) = {}
    THEN rows \cup {Row(loc)}
    ELSE rows \ Conflicting(rows, loc)

\* INSERT ... ON CONFLICT ... DO UPDATE applied to the rows the connection sees
Upsert(rows, loc) ==
    IF Conflicting(rows, loc) = {}
    THEN rows \cup {Row(loc)}
    ELSE {IF r \in Conflicting(rows, loc) THEN DoUpdate(r, loc) ELSE r : r \in rows}

\* RETURNING ... CASE WHEN xmax = 0 THEN 'INSERT' ELSE 'UPDATE' END
Operation(rows, loc) == IF Conflicting(rows, loc) = {} THEN "INSERT" ELSE "UPDATE"

\* conn.rollback(): the connection sees the committed rows again
Rollback(committed, seen) == committed

\* ------------------------------------------------------- inputs
RECURSIVE SeqsUpTo(_, _)
SeqsUpTo(set, n) ==
    IF n = 0 THEN {<< >>}
    ELSE LET shorter == SeqsUpTo(set, n - 1)
         IN  shorter \cup {Append(q, x) : q \in shorter, x \in set}

\* a raw record that is a JSON object
Item(id, name, address, lat, lng) ==
    [ isdict |-> TRUE,
      id |-> id, name |-> name, address |-> address, lat |-> lat, lng |-> lng ]

\* a raw record that is no JSON object (a string, a number, null, a list):
\* it has no get method
NonDict ==
    [ isdict |-> FALSE,
      id |-> Missing, name |-> Missing, address |-> Missing,
      lat |-> Missing, lng |-> Missing ]

\* raw records of the pipeline specifications: "A" and "a" normalise to the
\* same text, record 2 has an out-of-range lng, record 3 lacks lng, record 4
\* has a blank name, record 5 carries a NUL character and an unparseable lat,
\* and one record is no JSON object
RawPool ==
    { NonDict,
      Item(S(<<"1">>), S(<<"A">>), S(<<"x">>), S(<<"4","0",".","5">>), S(<<"4","9",".","5">>)),
      Item(S(<<"2">>), S(<<"a">>), S(<<"x">>), S(<<"3","8",".","0">>), S(<<"5","2",".","0","0","1">>)),
      Item(S(<<"3">>), S(<<"A">>), S(<<"x">>), S(<<"4","1",".","0">>), Missing),
      Item(S(<<"4">>), S(<<" ">>), S(<<"x">>), S(<<"4","0",".","5">>), S(<<"4","9",".","5">>)),
      Item(S(<<"5">>), S(<<"b", NUL>>), S(<<"x">>), S(<<"a","b","c">>), S(<<"4","9",".","5">>)) }

\* what fetch_endpoint_data returns: None (ok = FALSE) or the decoded list
FetchFailed == [ok |-> FALSE, data |-> << >>]
Fetched(list) == [ok |-> TRUE, data |-> list]

FetchResults == {FetchFailed} \cup {Fetched(q) : q \in SeqsUpTo(RawPool, MaxBatch)}

\* ------------------------------------------------------- state
VARIABLES
    pc,                   \* position in run_scraper
    ep,                   \* index of the endpoint of the for loop
    raw_data,             \* result of fetch_endpoint_data
    processed_locations,  \* result of process_location_data
    store,                \* committed rows of banking_locator.locations
    txn,                  \* rows as seen by the open connection
    constraint,           \* unique_company_type_name_address exists
    i,                    \* locations attempted by the upsert loop
    operation,            \* outcome of the last attempted statement
    inserted_count, updated_count, failed_count,
    total_inserted, total_updated,  \* totals of the run (total_processed, only logged, is left out)
    source,               \* what each endpoint serves (fixed-source runs)
    runs,                 \* completed runs (fixed-source runs)
    rows_first,           \* committed rows after the first completed run
    attempts,             \* calls of fetch_endpoint_data per endpoint in this run
    verified,             \* verify_table_exists returned in this run
    failed_sources,       \* endpoints whose iteration failed in this run (fair runs)
    source_counts,        \* the counters of each endpoint's committed batch (fair runs)
    text,                 \* two arguments of normalize_text (normalisation only)
    normalized,           \* their results (normalisation only)
    conns,                \* the connections of two concurrent save_locations_to_db
    calls,                \* the provisioning functions called so far (provisioning only)
    backup_table,         \* the backup table of fix.py
    response,             \* the answer read by input() in fix.py
    handle_conflicts,     \* the mode main passes to remove_duplicates
    original,             \* the rows of the table when fix.py started
    query,                \* the arguments of get_nearby_locations
    nearby_locations,     \* its return value
    session,              \* the session cookie the browser holds
    sent                  \* the messages exchanged since the last clear

vars == << pc, ep, raw_data, processed_locations, store, txn, constraint, i,
           operation, inserted_count, updated_count, failed_count,
           total_inserted, total_updated,
           source, runs, rows_first, attempts, verified, failed_sources,
           source_counts, text, normalized, conns, calls, backup_table,
           response, handle_conflicts, original, query, nearby_locations,
           session, sent >>

\* the variables of the other specifications
other == << text, normalized, conns, calls, backup_table, response,
           handle_conflicts, original, query, nearby_locations, session, sent >>

\* the variables of fix.py and of main.py
tools == << calls, backup_table, response, handle_conflicts, original, query,
           nearby_locations, session, sent >>

\* the variables of the fixed-source runs
fixed == << source, runs, rows_first >>

\* the variables of the fair runs
fair == << failed_sources, source_counts >>

env == << fixed, fair, other >>

\* what the run has done so far
hist == << attempts, verified >>

counts == << inserted_count, updated_count, failed_count >>

totals == << total_inserted, total_updated >>

\* an empty table and no open connection
InitStore == store = {} /\ txn = {}

InitLocals ==
    /\ ep = 1
    /\ processed_locations = << >>
    /\ i = 0
    /\ operation = "NONE"
    /\ inserted_count = 0 /\ updated_count = 0 /\ failed_count = 0
    /\ total_inserted = 0 /\ total_updated = 0
    /\ runs = 0
    /\ rows_first = 0
    /\ attempts = [e \in 1..NumEndpoints |-> 0]
    /\ verified = TRUE
    /\ failed_sources = {}
    /\ source_counts = [e \in 1..NumEndpoints |-> <<0, 0, 0>>]

\* the two runs that save concurrently
Runs == {1, 2}

\* the state of one call of save_locations_to_db: its argument, the
\* locations attempted, the rows its open transaction has written, its
\* counters, and whether it has committed and returned
Conn(locations) ==
    [ locations |-> locations, i |-> 0, writes |-> {},
      inserted_count |-> 0, updated_count |-> 0, failed_count |-> 0,
      done |-> FALSE ]

\* the normalisation-only and the concurrent specification have not started
NoBackup == [exists |-> FALSE, rows |-> {}]

NoSession == [present |-> FALSE, conversation |-> << >>]

\* fix.py and the web application have not started
InitTools ==
    /\ calls = << >>
    /\ backup_table = NoBackup
    /\ response = << >>
    /\ handle_conflicts = FALSE
    /\ original = {}
    /\ query = [user_lat |-> 0, user_lon |-> 0, limit |-> 0, max_distance |-> 0]
    /\ nearby_locations = << >>
    /\ session = NoSession
    /\ sent = << >>

InitOther ==
    /\ text = << NoneV, NoneV >>
    /\ normalized = << << >>, << >> >>
    /\ conns = [w \in Runs |-> Conn(<< >>)]
    /\ InitTools

\* before the first run: an empty table, with or without the constraint
InitRun ==
    /\ pc = "idle"
    /\ InitOther
    /\ raw_data = FetchFailed
    /\ constraint \in BOOLEAN
    /\ InitLocals
    /\ InitStore

Init ==
    /\ InitRun
    /\ source = [e \in 1..NumEndpoints |-> FetchFailed]

\* ------------------------------------------------------- run_scraper
\* variant: the loop leaves out every second endpoint
NextEndpointSkip ==
    IF ep + 1 < NumEndpoints
    THEN /\ ep' = ep + 2
         /\ pc' = "fetch"
    ELSE /\ ep' = ep
         /\ pc' = "report"

\* the for loop moves to the next endpoint, or past the loop
NextEndpoint ==
    IF ep < NumEndpoints
    THEN /\ ep' = ep + 1
         /\ pc' = "fetch"
    ELSE /\ ep' = ep
         /\ pc' = "report"

\* variant: a failed verification is only logged
verify_table_exists_logged(ok) ==
    /\ pc \in {"idle", "raised"}
    /\ pc' = "ensure"
    /\ verified' = ok
    /\ attempts' = [e \in 1..NumEndpoints |-> 0]
    /\ UNCHANGED << ep, raw_data, processed_locations, store, txn, constraint,
                    i, operation, counts, totals >>

\* verify_table_exists: raises when the store is unreachable or the table
\* or a required column is missing (ok = FALSE), and run_scraper logs the
\* failure and re-raises it
verify_table_exists(ok) ==
    /\ pc \in {"idle", "raised"}
    /\ pc' = IF ok THEN "ensure" ELSE "raised"
    /\ verified' = ok
    /\ attempts' = [e \in 1..NumEndpoints |-> 0]
    /\ UNCHANGED << ep, raw_data, processed_locations, store, txn, constraint,
                    i, operation, counts, totals >>

\* variant: a constraint that exists is dropped
EnsureUniqueConstraintDropped(c, rows) == IF c THEN FALSE ELSE NoDuplicates(rows)

\* whether the constraint exists after ensure_unique_constraint: a present
\* constraint is left alone; ADD CONSTRAINT succeeds, and is committed, unless
\* the table holds duplicates (the failure is only logged)
EnsureUniqueConstraint(c, rows) == IF c THEN c ELSE NoDuplicates(rows)

\* ensure_unique_constraint in run_scraper; then the loop starts
ensure_unique_constraint ==
    /\ pc = "ensure"
    /\ constraint' = EnsureUniqueConstraint(constraint, store)
    /\ ep' = 1
    /\ pc' = "fetch"
    /\ UNCHANGED << raw_data, processed_locations, store, txn, i, operation,
                    counts, totals >>

\* variant: a failed fetch ends the run
fetch_endpoint_data_abort(result) ==
    /\ pc = "fetch"
    /\ attempts' = [attempts EXCEPT ![ep] = @ + 1]
    /\ UNCHANGED verified
    /\ IF result.ok
       THEN pc' = "process" /\ ep' = ep /\ raw_data' = result
       ELSE pc' = "raised" /\ ep' = ep /\ raw_data' = FetchFailed
    /\ UNCHANGED << processed_locations, store, txn, constraint, i, operation,
                    counts, totals >>

\* fetch_endpoint_data; on None (a status other than 200, a request
\* failure, a body that is no JSON) the loop continues with the next
\* endpoint, as it does from its except branch when the call raises
fetch_endpoint_data(result) ==
    /\ pc = "fetch"
    /\ attempts' = [attempts EXCEPT ![ep] = @ + 1]
    /\ UNCHANGED verified
    /\ IF result.ok
       THEN pc' = "process" /\ ep' = ep /\ raw_data' = result
       ELSE NextEndpoint /\ raw_data' = FetchFailed
    /\ UNCHANGED << processed_locations, store, txn, constraint, i, operation,
                    counts, totals >>

\* the locals of one loop iteration and of save_locations_to_db, which no
\* later statement reads
LocalsReset ==
    /\ raw_data' = FetchFailed
    /\ processed_locations' = << >>
    /\ i' = 0
    /\ operation' = "NONE"
    /\ inserted_count' = 0 /\ updated_count' = 0 /\ failed_count' = 0

\* process_location_data; a non-empty result opens the connection of
\* save_locations_to_db and zeroes its counters; when the call raises, the
\* except branch of the loop logs and continues with the next endpoint
process ==
    /\ pc = "process"
    /\ IF ProcessRaises(raw_data.data)
       THEN /\ NextEndpoint
            /\ LocalsReset
            /\ UNCHANGED txn
       ELSE /\ processed_locations' = process_location_data(raw_data.data, Endpoints[ep])
            /\ IF processed_locations' # << >>
               THEN /\ pc' = "save"
                    /\ txn' = store
                    /\ i' = 0
                    /\ operation' = "NONE"
                    /\ inserted_count' = 0 /\ updated_count' = 0 /\ failed_count' = 0
               ELSE /\ pc' = "sleep"
                    /\ UNCHANGED << txn, i, operation, counts >>
            /\ UNCHANGED << ep, raw_data >>
    /\ UNCHANGED << store, constraint, totals >>

\* variant: the first failure ends the loop
on_statement_error_break ==
    /\ failed_count' = failed_count + 1
    /\ txn' = Rollback(store, txn)
    /\ operation' = "FAILED"
    /\ i' = Len(processed_locations)
    /\ UNCHANGED << inserted_count, updated_count >>

\* the except branches of the loop body: the failure is counted, the
\* connection is rolled back and the loop goes on with the next location
on_statement_error ==
    /\ failed_count' = failed_count + 1
    /\ txn' = Rollback(store, txn)
    /\ operation' = "FAILED"
    /\ i' = i + 1
    /\ UNCHANGED << inserted_count, updated_count >>

\* the try branch of the loop body: the statement ran and returned its row
on_statement_done(location) ==
    /\ txn' = Upsert(txn, location)
    /\ operation' = Operation(txn, location)
    /\ inserted_count' = inserted_count + (IF Operation(txn, location) = "INSERT" THEN 1 ELSE 0)
    /\ updated_count' = updated_count + (IF Operation(txn, location) = "INSERT" THEN 0 ELSE 1)
    /\ i' = i + 1
    /\ UNCHANGED failed_count

\* one iteration of the for loop of save_locations_to_db
upsert_location ==
    /\ pc = "save"
    /\ i < Len(processed_locations)
    /\ IF StatementFails(processed_locations[i + 1], constraint)
       THEN on_statement_error
       ELSE on_statement_done(processed_locations[i + 1])
    /\ UNCHANGED << pc, ep, raw_data, processed_locations, store, constraint, totals >>

\* return inserted_count, updated_count: the tuple save_locations_to_db
\* returns for the batch it committed
Returned == << inserted_count, updated_count >>

\* variant: the totals take the counts of the last batch
commit_overwrite ==
    /\ pc = "save"
    /\ i = Len(processed_locations)
    /\ store' = txn
    /\ total_inserted' = Returned[1]
    /\ total_updated' = Returned[2]
    /\ pc' = "sleep"
    /\ UNCHANGED << ep, raw_data, processed_locations, txn, constraint, i,
                    operation, counts >>

\* conn.commit() after the loop, the return of (inserted, updated) and the
\* additions to the totals in run_scraper
commit ==
    /\ pc = "save"
    /\ i = Len(processed_locations)
    /\ store' = txn
    /\ total_inserted' = total_inserted + Returned[1]
    /\ total_updated' = total_updated + Returned[2]
    /\ pc' = "sleep"
    /\ UNCHANGED << ep, raw_data, processed_locations, txn, constraint, i,
                    operation, counts >>

\* the totals the final log lines of run_scraper show
ReportTotals == [inserted |-> total_inserted, updated |-> total_updated]

\* save_locations_to_db raises (the connection cannot be opened, or is lost
\* before the commit): the with block rolls back, the function logs and
\* re-raises, and the except branch of the loop continues with the next
\* endpoint
save_locations_to_db_raises ==
    /\ pc = "save"
    /\ txn' = Rollback(store, txn)
    /\ NextEndpoint
    /\ LocalsReset
    /\ UNCHANGED << store, constraint, totals >>

\* time.sleep(2), the last statement of the loop body
sleep ==
    /\ pc = "sleep"
    /\ NextEndpoint
    /\ LocalsReset
    /\ UNCHANGED << store, txn, constraint, totals >>

\* get_statistics and the final log lines; run_scraper returns
report ==
    /\ pc = "report"
    /\ pc' = "idle"
    /\ ep' = 1
    /\ total_inserted' = 0 /\ total_updated' = 0
    /\ UNCHANGED << raw_data, processed_locations, store, txn, constraint,
                    i, operation, counts >>

\* ------------------------------------------------------- specifications
\* any number of runs, every fetch returning any result
Next ==
    \/ \E ok \in BOOLEAN : verify_table_exists(ok) /\ UNCHANGED env
    \/ ensure_unique_constraint /\ UNCHANGED << env, hist >>
    \/ \E result \in FetchResults : fetch_endpoint_data(result) /\ UNCHANGED env
    \/ process /\ UNCHANGED << env, hist >>
    \/ upsert_location /\ UNCHANGED << env, hist >>
    \/ save_locations_to_db_raises /\ UNCHANGED << env, hist >>
    \/ commit /\ UNCHANGED << env, hist >>
    \/ sleep /\ UNCHANGED << env, hist >>
    \/ report /\ UNCHANGED << env, hist >>

Spec == Init /\ [][Next]_vars

\* two runs against sources that serve the same data in both
InitIdem ==
    /\ InitRun
    /\ source \in [1..NumEndpoints -> FetchResults]

NextIdem ==
    \/ runs < 2 /\ verify_table_exists(TRUE) /\ UNCHANGED env
    \/ ensure_unique_constraint /\ UNCHANGED << env, hist >>
    \/ fetch_endpoint_data(source[ep]) /\ UNCHANGED env
    \/ process /\ UNCHANGED << env, hist >>
    \/ upsert_location /\ UNCHANGED << env, hist >>
    \/ commit /\ UNCHANGED << env, hist >>
    \/ sleep /\ UNCHANGED << env, hist >>
    \/ /\ report
       /\ runs' = runs + 1
       /\ rows_first' = IF runs = 0 THEN Cardinality(store) ELSE rows_first
       /\ UNCHANGED << source, fair, other, hist >>

SpecIdem == InitIdem /\ [][NextIdem]_vars

\* runs that go on as long as a statement is left to execute, with the
\* endpoints whose iteration failed recorded
FairPool ==
    { NonDict,
      Item(S(<<"1">>), S(<<"A">>), S(<<"x">>), S(<<"4","0",".","5">>), S(<<"4","9",".","5">>)),
      Item(S(<<"5">>), S(<<"b", NUL>>), S(<<"x">>), S(<<"a","b","c">>), S(<<"4","9",".","5">>)) }

\* two rows that agree on the constrained columns, as a table without the
\* constraint can hold them
DuplicateRows ==
    { [ company |-> "Kapital Bank", type |-> "branch", name |-> <<"A">>,
        address |-> <<"x">>, lat |-> Some(40 * Scale), lon |-> Some(49 * Scale) ],
      [ company |-> "Kapital Bank", type |-> "branch", name |-> <<"A">>,
        address |-> <<"x">>, lat |-> Absent, lon |-> Absent ] }

\* before the first run: an empty table or one that holds duplicates, the
\* constraint present only when the rows allow it
InitFair ==
    /\ pc = "idle"
    /\ InitOther
    /\ raw_data = FetchFailed
    /\ InitLocals
    /\ store \in {{}, DuplicateRows}
    /\ txn = {}
    /\ constraint \in {c \in BOOLEAN : c => NoDuplicates(store)}
    /\ source = [e \in 1..NumEndpoints |-> FetchFailed]

FairResults == {FetchFailed} \cup {Fetched(q) : q \in SeqsUpTo(FairPool, MaxBatch)}

Failed == failed_sources' = failed_sources \cup {ep} /\ UNCHANGED source_counts

NextFair ==
    \/ /\ \E ok \in BOOLEAN : verify_table_exists(ok)
       /\ failed_sources' = {}
       /\ source_counts' = [e \in 1..NumEndpoints |-> <<0, 0, 0>>]
       /\ UNCHANGED << fixed, other >>
    \/ ensure_unique_constraint /\ UNCHANGED << env, hist >>
    \/ /\ \E result \in FairResults :
              /\ fetch_endpoint_data(result)
              /\ IF result.ok THEN UNCHANGED fair ELSE Failed
       /\ UNCHANGED << fixed, other >>
    \/ /\ process
       /\ IF ProcessRaises(raw_data.data) THEN Failed ELSE UNCHANGED fair
       /\ UNCHANGED << fixed, other, hist >>
    \/ upsert_location /\ UNCHANGED << env, hist >>
    \/ save_locations_to_db_raises /\ Failed /\ UNCHANGED << fixed, other, hist >>
    \/ /\ commit
       /\ source_counts' = [source_counts EXCEPT ![ep] = counts]
       /\ UNCHANGED << failed_sources, fixed, other, hist >>
    \/ sleep /\ UNCHANGED << env, hist >>
    \/ report /\ UNCHANGED << env, hist >>

\* the interpreter executes the next statement of run_scraper whenever
\* there is one: requests time out, time.sleep returns, the loops are finite.
\* The return of process_location_data is told by its change of pc, which
\* every step of NextFair from "process" makes.
ProcessReturns == pc = "process" /\ pc' \in {"save", "sleep", "fetch", "report"}

SpecFair ==
    /\ InitFair /\ [][NextFair]_vars
    /\ WF_vars(pc # "process" /\ NextFair)
    /\ WF_pc(ProcessReturns)

\* two runs that call save_locations_to_db at the same time, each over its
\* own connection (READ COMMITTED), against a table with the constraint
ConcPool ==
    { Item(S(<<"1">>), S(<<"A">>), S(<<"x">>), S(<<"4","0",".","5">>), S(<<"4","9",".","5">>)),
      Item(S(<<"6">>), S(<<"B">>), S(<<"x">>), S(<<"4","1",".","0">>), S(<<"5","0",".","0">>)),
      Item(S(<<"5">>), S(<<"b", NUL>>), S(<<"x">>), S(<<"a","b","c">>), S(<<"4","9",".","5">>)) }

ConcBatches ==
    {process_location_data(q, Endpoints[1]) : q \in SeqsUpTo(ConcPool, MaxBatch)}

InitConc ==
    /\ pc = "concurrent"
    /\ conns \in {[w \in Runs |-> Conn(IF w = 1 THEN b1 ELSE b2)] :
                     b1 \in ConcBatches, b2 \in ConcBatches}
    /\ text = << NoneV, NoneV >>
    /\ normalized = << << >>, << >> >>
    /\ raw_data = FetchFailed
    /\ constraint = TRUE
    /\ InitLocals
    /\ InitStore
    /\ InitTools
    /\ source = [e \in 1..NumEndpoints |-> FetchFailed]

Keys(rows) == {ConflictKey(r) : r \in rows}

\* the rows a statement of connection w sees: the committed rows, with the
\* rows its own transaction has written in place of those they replace
View(w) ==
    {r \in store : ConflictKey(r) \notin Keys(conns[w].writes)} \cup conns[w].writes

NextLocation(w) == conns[w].locations[conns[w].i + 1]

\* the statement of connection w waits for the other transaction to end: the
\* other has written, and not committed, a row with the same constrained
\* columns (psycopg2 refuses a NUL character before anything is sent)
Blocked(w) ==
    /\ conns[w].i < Len(conns[w].locations)
    /\ ~StatementFails(NextLocation(w), constraint)
    /\ ConflictKey(Row(NextLocation(w))) \in Keys(conns[3 - w].writes)

\* the except branches of the loop body, on connection w
conn_statement_error(w) ==
    conns' = [conns EXCEPT ![w].failed_count = @ + 1,
                           ![w].writes = {},
                           ![w].i = @ + 1]

\* one iteration of the for loop of save_locations_to_db on connection w
\* whose statement does not have to wait
conn_upsert_location(w) ==
    /\ pc = "concurrent"
    /\ ~conns[w].done
    /\ conns[w].i < Len(conns[w].locations)
    /\ ~Blocked(w)
    /\ LET location == NextLocation(w)
           key == ConflictKey(Row(location))
           insert == Operation(View(w), location) = "INSERT"
       IN  IF StatementFails(location, constraint)
           THEN conn_statement_error(w)
           ELSE conns' = [conns EXCEPT
                    ![w].writes = {r \in Upsert(View(w), location) :
                                      ConflictKey(r) \in Keys(@) \cup {key}},
                    ![w].inserted_count = @ + (IF insert THEN 1 ELSE 0),
                    ![w].updated_count = @ + (IF insert THEN 0 ELSE 1),
                    ![w].i = @ + 1]
    /\ UNCHANGED store

\* both statements wait for each other: PostgreSQL detects the deadlock and
\* makes the statement of one connection, here w, raise
conn_deadlock(w) ==
    /\ pc = "concurrent"
    /\ ~conns[w].done /\ ~conns[3 - w].done
    /\ Blocked(w) /\ Blocked(3 - w)
    /\ conn_statement_error(w)
    /\ UNCHANGED store

\* conn.commit() after the loop and the return, on connection w
conn_commit(w) ==
    /\ pc = "concurrent"
    /\ ~conns[w].done
    /\ conns[w].i = Len(conns[w].locations)
    /\ store' = View(w)
    /\ conns' = [conns EXCEPT ![w].writes = {}, ![w].done = TRUE]

\* what the concurrent saves leave alone
pipeline == << pc, ep, raw_data, processed_locations, txn, constraint, i,
               operation, counts, totals, fixed, fair, text, normalized, hist,
               tools >>

NextConc ==
    \/ \E w \in Runs : conn_upsert_location(w) /\ UNCHANGED pipeline
    \/ \E w \in Runs : conn_deadlock(w) /\ UNCHANGED pipeline
    \/ \E w \in Runs : conn_commit(w) /\ UNCHANGED pipeline

SpecConc == InitConc /\ [][NextConc]_vars

\* the transformer alone, applied to one raw batch of the first endpoint
LatPool ==
    { Missing, NoneV, S(<< >>), S(<<"a","b","c">>), Num(40500),
      S(<<"3","7",".","9","9","9">>), S(<<"3","8",".","0">>),
      S(<<"4","2",".","0">>), S(<<"4","2",".","0","0","1">>) }

LngPool ==
    { Missing, NoneV, S(<< >>), S(<<"x">>), Num(49500),
      S(<<"4","3",".","9","9","9">>), S(<<"4","4",".","0">>),
      S(<<"5","2",".","0">>), S(<<"5","2",".","0","0","1">>) }

TPool ==
    { Item(S(<<"7">>), S(name), S(<<"x">>), lat, lng) :
        name \in {<<"A">>, <<"b">>, <<" ">>}, lat \in LatPool, lng \in LngPool }
    \cup {NonDict}
    \cup { Item(S(<<"7">>), name, S(<<"x">>), Missing, Missing) : name \in {Missing, NoneV} }
    \cup { Item(S(<<"7">>), S(<<"A">>), address, Missing, Missing) : address \in {Missing, NoneV} }

InitT ==
    /\ pc = "raw"
    /\ InitOther
    /\ raw_data \in {Fetched(q) : q \in SeqsUpTo(TPool, MaxRawT)}
    /\ constraint = TRUE
    /\ InitLocals
    /\ InitStore
    /\ source = [e \in 1..NumEndpoints |-> FetchFailed]

\* processed_locations = self.process_location_data(raw_data, endpoint)
transform ==
    /\ pc = "raw"
    /\ IF ProcessRaises(raw_data.data)
       THEN /\ pc' = "process_raised"
            /\ UNCHANGED processed_locations
       ELSE /\ pc' = "transformed"
            /\ processed_locations' = process_location_data(raw_data.data, Endpoints[ep])
    /\ UNCHANGED << ep, raw_data, store, txn, constraint, i, operation, counts,
                    totals, env, hist >>

NextT == transform

SpecT == InitT /\ [][NextT]_vars

\* normalize_text alone, applied to two arguments: None or a short text
TextAlphabet == {"A", "a", " ", "."}

TextPool == {NoneV} \cup {S(q) : q \in SeqsUpTo(TextAlphabet, MaxText)}

InitN ==
    /\ pc = "text"
    /\ conns = [w \in Runs |-> Conn(<< >>)]
    /\ text \in {<<t1, t2>> : t1 \in TextPool, t2 \in TextPool}
    /\ normalized = << << >>, << >> >>
    /\ raw_data = FetchFailed
    /\ constraint = TRUE
    /\ InitLocals
    /\ InitStore
    /\ InitTools
    /\ source = [e \in 1..NumEndpoints |-> FetchFailed]

\* the call normalize_text(text) for each of the two arguments
call_normalize_text ==
    /\ pc = "text"
    /\ normalized' = << NormalizeArg(text[1]), NormalizeArg(text[2]) >>
    /\ pc' = "normalized"
    /\ UNCHANGED << ep, raw_data, processed_locations, store, txn, constraint,
                    i, operation, counts, totals, fixed, fair, text, conns, tools,
                    hist >>

NextN == call_normalize_text

SpecN == InitN /\ [][NextN]_vars

\* ------------------------------------------------------- properties
\* the Identity Key of a location or row
IdentityKey(r) ==
    <<r.company, r.type, normalize_text(r.name), normalize_text(r.address)>>

Coords(r) == <<r.lat, r.lon>>

\* the raw items of the current batch that are not dropped for a blank field
Kept(k) ==
    /\ CleanField(raw_data.data[k], "name") # << >>
    /\ CleanField(raw_data.data[k], "address") # << >>

RawKey(k) ==
    << Endpoints[ep].company, Endpoints[ep].type,
       normalize_text(CleanField(raw_data.data[k], "name")),
       normalize_text(CleanField(raw_data.data[k], "address")) >>

\* item k is the first kept item of the batch with its Identity Key
FirstOfKey(k) == Kept(k) /\ \A j \in 1..(k - 1) : Kept(j) => RawKey(j) # RawKey(k)

\* process_location_data has just returned
Transformed == (pc = "save" /\ i = 0) \/ (pc = "sleep" /\ raw_data.ok /\ i = 0)

\* a batch has been through save_locations_to_db and is committed
BatchCommitted == pc = "sleep" /\ processed_locations # << >>

\* the locations of the current batch whose statement raises
Failing == {k \in 1..Len(processed_locations) :
              StatementFails(processed_locations[k], constraint)}

\* C1: no two committed rows share the Identity Key (organization, category,
\* normalize(name), normalize(address)), after any number of runs.
C1_IdentityKeyUnique ==
    \A r1, r2 \in store : IdentityKey(r1) = IdentityKey(r2) => r1 = r2

\* C2: when the second of two runs over identical source data reaches its
\* report, it has inserted nothing and the store has as many rows as after
\* the first run.
C2_SecondRunInsertsNothing ==
    (pc = "report" /\ runs = 1) =>
        /\ total_inserted = 0
        /\ Cardinality(store) = rows_first

\* C3: once a batch is committed, every location whose statement succeeded
\* before a failing location of the same batch is a row of the store.
C3_EarlierRecordsSurviveFailure ==
    BatchCommitted =>
        \A k \in 1..Len(processed_locations) :
            (k \notin Failing /\ \E f \in Failing : k < f) =>
                \E r \in store : r = Row(processed_locations[k])

\* C4: a batch of n locations of which exactly one raises is attempted to the
\* end, with one failure counted and n - 1 locations counted as inserted or
\* updated.
C4_OneFailureDoesNotAbort ==
    (BatchCommitted /\ Cardinality(Failing) = 1) =>
        /\ i = Len(processed_locations)
        /\ failed_count = 1
        /\ inserted_count + updated_count = Len(processed_locations) - 1

C4_Witness ==
    /\ BatchCommitted
    /\ Len(processed_locations) >= 2
    /\ Cardinality(Failing) = 1
    /\ failed_count = 1
    /\ inserted_count + updated_count = Len(processed_locations) - 1

C6_MatchingRowOverwritten ==
    [][ ( /\ pc = "save" /\ i' = i + 1 /\ operation' \in {"INSERT", "UPDATE"}
          /\ \E r \in txn : IdentityKey(r) = IdentityKey(processed_locations[i + 1]) )
        => \A r \in txn' :
               IdentityKey(r) = IdentityKey(processed_locations[i + 1])
                   => Coords(r) = Coords(processed_locations[i + 1]) ]_vars

\* C7: a statement that succeeds leaves the company, type, name and address of
\* every row as they were, and adds a row only when it is an INSERT.
C7_IdentityFieldsImmutable ==
    [][ (pc = "save" /\ i' = i + 1 /\ operation' \in {"INSERT", "UPDATE"})
        => /\ \A r \in txn : \E r2 \in txn' : ConflictKey(r2) = ConflictKey(r)
           /\ Cardinality(txn') =
                  Cardinality(txn) + (IF operation' = "INSERT" THEN 1 ELSE 0) ]_vars

C7_Witness ==
    /\ pc = "save"
    /\ operation = "UPDATE"
    /\ \E r \in txn : r \notin store /\ \E r0 \in store : ConflictKey(r0) = ConflictKey(r)

\* C8: no step of any run removes a committed row: every row of the store
\* has a row with the same company, type, name and address after the step.
C8_RowsNeverDeleted ==
    [][ /\ \A r \in store : \E r2 \in store' : ConflictKey(r2) = ConflictKey(r)
        /\ Cardinality(store') >= Cardinality(store) ]_vars

C8_Witness ==
    /\ BatchCommitted
    /\ failed_count >= 1
    /\ updated_count >= 1
    /\ store # {}

\* C9: every location the transformer returned and every row, committed or
\* not, has latitude and longitude both present or both absent.
C9_CoordinatesPaired ==
    /\ \A k \in 1..Len(processed_locations) :
           processed_locations[k].lat.some = processed_locations[k].lon.some
    /\ \A r \in store \cup txn : r.lat.some = r.lon.some

C9_Witness ==
    /\ BatchCommitted
    /\ \E k \in 1..Len(raw_data.data) :
           /\ FirstOfKey(k)
           /\ PyFloat(Get(raw_data.data[k], "lat")).ok
           /\ ~PyFloat(Get(raw_data.data[k], "lng")).ok
           /\ \E r \in store :
                  /\ r.name = CleanField(raw_data.data[k], "name")
                  /\ r.type = Endpoints[ep].type
                  /\ ~r.lat.some /\ ~r.lon.some

\* C10: a kept raw item whose latitude and longitude both parse yields a
\* location; it has the parsed pair when 38 <= latitude <= 42 and
\* 44 <= longitude <= 52, and absent coordinates otherwise.
C10_InclusiveBounds ==
    pc = "transformed" =>
        \A k \in 1..Len(raw_data.data) :
            LET item == raw_data.data[k]
                la == PyFloat(Get(item, "lat"))
                lo == PyFloat(Get(item, "lng"))
            IN  (FirstOfKey(k) /\ la.ok /\ lo.ok) =>
                    \E n \in 1..Len(processed_locations) :
                        /\ IdentityKey(processed_locations[n]) = RawKey(k)
                        /\ IF /\ 38 * Scale <= la.v /\ la.v <= 42 * Scale
                              /\ 44 * Scale <= lo.v /\ lo.v <= 52 * Scale
                           THEN Coords(processed_locations[n]) = <<Some(la.v), Some(lo.v)>>
                           ELSE Coords(processed_locations[n]) = <<Absent, Absent>>

C10_Witness ==
    /\ pc = "transformed"
    /\ Len(raw_data.data) >= 1
    /\ raw_data.data[1].lat = S(<<"3","7",".","9","9","9">>)
    /\ raw_data.data[1].lng = S(<<"5","2",".","0">>)
    /\ Len(processed_locations) >= 1
    /\ Coords(processed_locations[1]) = <<Absent, Absent>>

\* the text with case, punctuation and the lengths of whitespace runs
\* (leading and trailing ones included) taken away
Canon(str) == Strip(CollapseSpaces(RemovePunctuation(Lower(str))))

HasDoubleSpace(str) ==
    \E k \in 1..(Len(str) - 1) : IsSpace(str[k]) /\ IsSpace(str[k + 1])

\* C11: the result of normalize_text is lower-cased, holds no punctuation
\* character, no two consecutive whitespace characters and no leading or
\* trailing whitespace; an empty or absent argument gives the empty text.
C11_NormalizedShape ==
    pc = "normalized" =>
        \A n \in 1..2 :
            /\ normalized[n] = Lower(normalized[n])
            /\ normalized[n] = RemovePunctuation(normalized[n])
            /\ ~HasDoubleSpace(normalized[n])
            /\ normalized[n] = Strip(normalized[n])
            /\ ~Truthy(text[n]) => normalized[n] = << >>

\* C12: two texts that differ only in letter case, in the lengths of their
\* whitespace runs and in occurrences of punctuation have the same
\* normalize_text result.
C12_EquivalentTextsAgree ==
    (pc = "normalized" /\ Truthy(text[1]) /\ Truthy(text[2])
        /\ Canon(text[1].s) = Canon(text[2].s))
        => normalized[1] = normalized[2]

Blank(str) == Strip(str) = << >>

\* C13: no location the transformer returned and no row, committed or not,
\* has a blank name or address, and the raw items of a batch that are not
\* blank are still transformed when others of the batch are dropped.
C13_BlankRecordsDropped ==
    /\ \A k \in 1..Len(processed_locations) :
           /\ ~Blank(processed_locations[k].name)
           /\ ~Blank(processed_locations[k].address)
    /\ \A r \in store \cup txn : ~Blank(r.name) /\ ~Blank(r.address)
    /\ Transformed =>
           \A k \in 1..Len(raw_data.data) :
               Kept(k) => \E n \in 1..Len(processed_locations) :
                              IdentityKey(processed_locations[n]) = RawKey(k)

C13_Witness ==
    /\ BatchCommitted
    /\ Len(raw_data.data) = 2
    /\ Blank(PyStr(GetOrEmpty(raw_data.data[1], "name")))
    /\ Kept(2)
    /\ Len(processed_locations) = 1
    /\ \E r \in store : r.name = CleanField(raw_data.data[2], "name")
    /\ \A r \in store : ~Blank(r.name)

\* C14: process_location_data returns for every batch, and its result holds
\* a location for every well-formed raw item that is the first kept one of
\* its Identity Key, whatever the other items of the batch are.
C14_MalformedRecordSkipped ==
    [][ pc = "process" =>
          /\ pc' \in {"save", "sleep"}
          /\ \A k \in 1..Len(raw_data.data) :
                 (raw_data.data[k].isdict /\ FirstOfKey(k)) =>
                     \E n \in 1..Len(processed_locations') :
                         IdentityKey(processed_locations'[n]) = RawKey(k) ]_vars

\* C15: a run whose schema verification fails is over with the failure
\* raised: it has fetched no endpoint and its steps leave the store and the
\* connection's view of it as they were.
C15_VerificationFailureAborts ==
    /\ [](~verified => (pc = "raised" /\ \A e \in 1..NumEndpoints : attempts[e] = 0))
    /\ [](pc = "raised" => ~verified)
    /\ [][~verified' => (store' = store /\ txn' = txn)]_vars

C15_Witness ==
    /\ pc = "raised"
    /\ ~verified
    /\ store # {}
    /\ \A e \in 1..NumEndpoints : attempts[e] = 0

\* C16: a run whose schema verification passed reaches its report with every
\* endpoint fetched once, whichever endpoints fail to fetch, to transform or
\* to save; nothing but a failed verification makes the run raise.
C16_SourceFailureDoesNotAbort ==
    /\ (pc = "ensure") ~> (pc = "report" /\ \A e \in 1..NumEndpoints : attempts[e] = 1)
    /\ [](pc = "raised" => failed_sources = {})

C16_Witness ==
    /\ pc = "report"
    /\ 1 \in failed_sources
    /\ \A e \in 1..NumEndpoints : attempts[e] = 1
    /\ total_inserted > 0

\* C17: the loop reaches the fetch of the next endpoint only by the cooldown
\* time.sleep(2), whether the endpoint before it was fetched, transformed and
\* saved or failed.
C17_CooldownBetweenFetches ==
    [][ (pc' = "fetch" /\ ep' = ep + 1) => pc = "sleep" ]_vars

\* the sum of counter n (1 inserted, 2 updated, 3 failed) over the batches
\* the endpoints 1..e committed in this run
RECURSIVE SumCounts(_, _)
SumCounts(n, e) == IF e = 0 THEN 0 ELSE source_counts[e][n] + SumCounts(n, e - 1)

FirstIndex(n) ==
    CHOOSE k \in 1..Len(raw_data.data) :
        FirstOfKey(k) /\ RawKey(k) = IdentityKey(processed_locations[n])

\* C20: the locations the transformer returned stand in the order of the
\* first raw items with their Identity Keys, and the upsert loop takes them
\* in that order: after i statements the rows the connection has not yet
\* committed come from the first i locations.
C20_FirstOccurrenceOrder ==
    /\ Transformed =>
           \A m, n \in 1..Len(processed_locations) :
               m < n => FirstIndex(m) < FirstIndex(n)
    /\ pc = "save" =>
           \A r \in txn \ store :
               \E k \in 1..i : ConflictKey(r) = ConflictKey(Row(processed_locations[k]))

C20_Witness ==
    /\ pc = "save"
    /\ i = 1
    /\ Len(raw_data.data) = 2
    /\ Len(processed_locations) = 2
    /\ RawKey(1) = IdentityKey(processed_locations[1])
    /\ RawKey(2) = IdentityKey(processed_locations[2])
    /\ RawKey(1) # RawKey(2)
    /\ Row(processed_locations[1]) \in txn
    /\ Row(processed_locations[2]) \notin txn

\* both concurrent saves have committed and returned
AllDone == \A w \in Runs : conns[w].done

\* the constrained columns of the locations of connection w whose statement
\* is not refused
UpsertedBy(w) ==
    { ConflictKey(Row(conns[w].locations[k])) :
        k \in {n \in 1..Len(conns[w].locations) :
                  ~StatementFails(conns[w].locations[n], constraint)} }

\* connection w has a step to take
CanStep(w) ==
    /\ ~conns[w].done
    /\ ~Blocked(w) \/ (Blocked(3 - w) /\ ~conns[3 - w].done)

\* C19: when two runs save concurrently against a table with the constraint,
\* no two rows ever share the constrained columns, a key both runs upserted
\* has exactly one row once both have returned, a save that has not returned
\* or another always has a step to take, and no step removes a committed
\* row.
C19_ConcurrentUpserts ==
    /\ [](pc = "concurrent" =>
             /\ NoDuplicates(store)
             /\ AllDone =>
                    \A key \in UpsertedBy(1) \cap UpsertedBy(2) :
                        Cardinality({r \in store : ConflictKey(r) = key}) = 1
             /\ ~AllDone => \E w \in Runs : CanStep(w))
    /\ [][\A r \in store : \E r2 \in store' : ConflictKey(r2) = ConflictKey(r)]_vars

\* the value is missing, null or empty, or float() refuses it
NoCoordinate(val) == ~Truthy(val) \/ ~PyFloat(val).ok

C22_ConstraintBeforeUpsert ==
    pc = "save" => constraint

\* ------------------------------------------------------- fix.py
\* bounds of the tables fix.py and the provisioning functions start from
MaxRows == 3

MaxCalls == 2

\* a row of banking_locator.locations with its id and created_at; lat and lon
\* are in units of 10^-7 degrees
FixRow(id, created_at, company, type, name, lat, lon) ==
    [ id |-> id, created_at |-> created_at, company |-> company, type |-> type,
      name |-> name, address |-> <<"x">>, lat |-> lat, lon |-> lon ]

FixPool ==
    { FixRow(1, 1, "Kapital Bank", "atm", <<"A">>, Some(0), Some(0)),
      FixRow(2, 2, "Kapital Bank", "atm", <<"A">>, Some(0), Some(0)),
      FixRow(3, 2, "Kapital Bank", "atm", <<"A">>, Some(20), Some(0)),
      FixRow(4, 1, "Kapital Bank", "atm", <<"A">>, Some(4), Some(0)),
      FixRow(5, 3, "Kapital Bank", "atm", <<"B">>, Absent, Absent),
      FixRow(6, 1, "Kapital Bank", "atm", <<"B">>, Some(0), Some(0)),
      FixRow(7, 1, "Kapital Bank", "branch", <<"A">>, Some(0), Some(0)),
      FixRow(8, 2, "Kapital Bank", "branch", <<"A">>, Some(0), Some(0)),
      FixRow(9, 1, "Bank of Baku", "atm", <<"A">>, Some(0), Some(0)) }

Tables == {t \in SUBSET FixPool : Cardinality(t) <= MaxRows}

\* whether the constraint exists after add_unique_constraint of fix.py: a
\* present constraint is left alone; ADD CONSTRAINT succeeds, and is
\* committed, unless the table holds duplicates (then the error is logged and
\* the transaction rolled back)
AddUniqueConstraint(c, rows) == IF c THEN c ELSE NoDuplicates(rows)

\* the rows every statement of fix.py is restricted to
KapitalAtm(rows) == {r \in rows : r.company = "Kapital Bank" /\ r.type = "atm"}

\* name || '|' || address
NameAddress(r) == r.name \o <<"|">> \o r.address

\* analyze_duplicates: total minus COUNT(DISTINCT name || '|' || address)
\* is not 0
HasDuplicates(rows) ==
    Cardinality(KapitalAtm(rows))
        - Cardinality({NameAddress(r) : r \in KapitalAtm(rows)}) # 0

\* the rows of the group (name, address) of r
GroupOf(r, rows) ==
    {r2 \in KapitalAtm(rows) : r2.name = r.name /\ r2.address = r.address}

\* COUNT(DISTINCT lat || ',' || lon) of a group: a row with a NULL
\* coordinate yields NULL, which is not counted
UniqueCoordinates(group) ==
    Cardinality({<<r.lat.v, r.lon.v>> : r \in {g \in group : g.lat.some /\ g.lon.some}})

\* check_coordinate_differences: the groups of more than one row that hold
\* more than one coordinate pair
CoordinateConflicts(rows) ==
    { <<r.name, r.address>> :
        r \in {g \in KapitalAtm(rows) :
                  /\ Cardinality(GroupOf(g, rows)) > 1
                  /\ UniqueCoordinates(GroupOf(g, rows)) > 1} }

\* ROUND(x::numeric, 6) of a coordinate held in units of 10^-7 degrees, the
\* result in units of 10^-6; NULL stays NULL
Round6(c) == IF c.some THEN Some((c.v + 5) \div 10) ELSE Absent

\* the PARTITION BY columns of the two DELETE statements
Partition(r, handle_coordinate_conflicts) ==
    IF handle_coordinate_conflicts
    THEN <<r.company, r.type, r.name, r.address, Round6(r.lat), Round6(r.lon)>>
    ELSE <<r.company, r.type, r.name, r.address>>

\* variant: ORDER BY created_at ASC, id ASC
Older(r2, r) ==
    \/ r2.created_at < r.created_at
    \/ r2.created_at = r.created_at /\ r2.id < r.id

\* ORDER BY created_at DESC, id DESC: r2 comes before r
Newer(r2, r) ==
    \/ r2.created_at > r.created_at
    \/ r2.created_at = r.created_at /\ r2.id > r.id

\* ROW_NUMBER() of r in its partition
RowNum(r, rows, handle_coordinate_conflicts) ==
    1 + Cardinality({r2 \in KapitalAtm(rows) :
                       /\ Partition(r2, handle_coordinate_conflicts)
                              = Partition(r, handle_coordinate_conflicts)
                       /\ Newer(r2, r)})

\* the table after the DELETE of remove_duplicates and its commit
RemoveDuplicates(rows, handle_coordinate_conflicts) ==
    rows \ {r \in KapitalAtm(rows) : RowNum(r, rows, handle_coordinate_conflicts) > 1}

\* the state of the pipeline, which fix.py and main.py leave alone
scraper == << ep, raw_data, processed_locations, txn, i, operation, counts,
              totals, fixed, fair, hist, text, normalized, conns >>

InitScraper ==
    /\ raw_data = FetchFailed
    /\ txn = {}
    /\ source = [e \in 1..NumEndpoints |-> FetchFailed]
    /\ InitLocals
    /\ text = << NoneV, NoneV >>
    /\ normalized = << << >>, << >> >>
    /\ conns = [w \in Runs |-> Conn(<< >>)]

\* the two provisioning functions, called in any order against any table
InitProvision ==
    /\ pc = "provision"
    /\ store \in Tables
    /\ constraint \in {c \in BOOLEAN : c => NoDuplicates(store)}
    /\ InitScraper
    /\ InitTools

call_ensure_unique_constraint ==
    /\ pc = "provision"
    /\ Len(calls) < MaxCalls
    /\ constraint' = EnsureUniqueConstraint(constraint, store)
    /\ calls' = Append(calls, "ensure_unique_constraint")
    /\ UNCHANGED << pc, store, scraper, backup_table, response, handle_conflicts,
                    original, query, nearby_locations, session, sent >>

call_add_unique_constraint ==
    /\ pc = "provision"
    /\ Len(calls) < MaxCalls
    /\ constraint' = AddUniqueConstraint(constraint, store)
    /\ calls' = Append(calls, "add_unique_constraint")
    /\ UNCHANGED << pc, store, scraper, backup_table, response, handle_conflicts,
                    original, query, nearby_locations, session, sent >>

NextProvision == call_ensure_unique_constraint \/ call_add_unique_constraint

SpecProvision == InitProvision /\ [][NextProvision]_vars

\* C23: provisioning the constraint is idempotent: a call of
\* ensure_unique_constraint or of fix.py's add_unique_constraint never
\* changes a row, leaves a present constraint in place, and a second call in
\* a row of the same function leaves the state the first call left.
C23_ProvisioningIdempotent ==
    [][ /\ store' = store
        /\ constraint => constraint'
        /\ (calls # << >> /\ calls' # calls /\ calls'[Len(calls')] = calls[Len(calls)])
               => constraint' = constraint ]_vars

C23_Witness ==
    /\ calls = << "add_unique_constraint", "add_unique_constraint" >>
    /\ constraint
    /\ Cardinality(store) = 2

\* the steps of the loop body of run_scraper
LoopSteps == {"fetch", "process", "save", "sleep"}

\* the steps that can follow a step of the loop body for the same endpoint
LaterSteps(step) ==
    CASE step = "fetch" -> {"process"}
      [] step = "process" -> {"save", "sleep"}
      [] step = "save" -> {"save", "sleep"}
      [] step = "sleep" -> {}
      [] OTHER -> {}

\* a step of the loop body goes on with the same endpoint, or moves to the
\* fetch of the next endpoint, or leaves the loop after the last one
LoopStep ==
    pc \in LoopSteps =>
        \/ ep' = ep /\ pc' \in LaterSteps(pc)
        \/ ep' = ep + 1 /\ pc' = "fetch" /\ ep < NumEndpoints
        \/ ep' = ep /\ pc' = "report" /\ ep = NumEndpoints

\* C24: within one run the sources are processed one at a time in the
\* configured order, each through fetch, then transform, then upsert; every
\* source's fetch is attempted exactly once per run, whether it succeeds or
\* fails, and no step of a source starts before the previous source's
\* processing has ended.
C24_OneSourceAtATime ==
    /\ [](pc \in LoopSteps \cup {"report"} =>
            \A e \in 1..NumEndpoints :
                attempts[e] = IF e < ep \/ pc = "report" \/ (e = ep /\ pc # "fetch")
                              THEN 1 ELSE 0)
    /\ [][LoopStep]_vars

C24_Witness ==
    /\ pc = "report"
    /\ \A e \in 1..NumEndpoints : attempts[e] = 1
    /\ failed_sources # {}
    /\ store # {}

\* C25: the counts save_locations_to_db returns match its effect: the
\* committed table has as many more rows as were counted inserted, and every
\* location counted inserted or updated is a committed row with that
\* location's coordinates, also when a statement of the batch failed.
C25_CountsMatchEffect ==
    [][(pc = "save" /\ pc' = "sleep") =>
          /\ Cardinality(store') = Cardinality(store) + Returned[1]
          /\ \A k \in 1..Len(processed_locations) :
                 k \notin Failing => Row(processed_locations[k]) \in store']_vars

\* the value is JSON null or the key is not in the record
NoValue(item, key) == item[key].t = "missing" \/ item[key] = NoneV

\* C26: a raw record whose name or address is absent or null produces no
\* location: the output of the transformer holds nothing made from it.
C26_NullNameOrAddressDropped ==
    pc = "transformed" =>
        \A k \in 1..Len(raw_data.data) :
            (NoValue(raw_data.data[k], "name") \/ NoValue(raw_data.data[k], "address")) =>
                ~(/\ FirstOfKey(k)
                  /\ \E n \in 1..Len(processed_locations) :
                         IdentityKey(processed_locations[n]) = RawKey(k))

\* ------------------------------------------------------- remove_duplicates
\* remove_duplicates called once, in either mode, on any table
InitDedupe ==
    /\ pc = "table"
    /\ store \in Tables
    /\ constraint \in {c \in BOOLEAN : c => NoDuplicates(store)}
    /\ InitScraper
    /\ calls = << >>
    /\ backup_table = NoBackup
    /\ response = << >>
    /\ handle_conflicts = FALSE
    /\ original = store
    /\ query = [user_lat |-> 0, user_lon |-> 0, limit |-> 0, max_distance |-> 0]
    /\ nearby_locations = << >>
    /\ session = NoSession
    /\ sent = << >>

call_remove_duplicates(handle_coordinate_conflicts) ==
    /\ pc = "table"
    /\ handle_conflicts' = handle_coordinate_conflicts
    /\ store' = RemoveDuplicates(store, handle_coordinate_conflicts)
    /\ pc' = "deduplicated"
    /\ UNCHANGED << constraint, scraper, calls, backup_table, response, original,
                    query, nearby_locations, session, sent >>

NextDedupe == \E mode \in BOOLEAN : call_remove_duplicates(mode)

SpecDedupe == InitDedupe /\ [][NextDedupe]_vars

\* the rows of a table with the constrained columns of r
SameKey(r, rows) == {r2 \in rows : ConflictKey(r2) = ConflictKey(r)}

\* s is the most recent row of the set: none has a greater created_at, and
\* none with the same created_at has a greater id
MostRecent(s, rows) ==
    /\ s \in rows
    /\ \A r \in rows :
          \/ r.created_at < s.created_at
          \/ r.created_at = s.created_at /\ r.id <= s.id

\* the rows that are not Kapital Bank ATM rows
Others(rows) == {r \in rows : r.company # "Kapital Bank" \/ r.type # "atm"}

\* C27 as stated: after remove_duplicates, in either mode, the Kapital Bank
\* ATM rows hold exactly one row per (company, type, name, address), the most
\* recent one, and the rows of other companies or types are unchanged.
C27_OneRowPerKey ==
    pc = "deduplicated" =>
        /\ Others(store) = Others(original)
        /\ KapitalAtm(store) \subseteq KapitalAtm(original)
        /\ \A r \in KapitalAtm(original) :
              /\ Cardinality(SameKey(r, KapitalAtm(store))) = 1
              /\ \A s \in SameKey(r, KapitalAtm(store)) :
                    MostRecent(s, SameKey(r, KapitalAtm(original)))

\* the rows whose constrained columns and rounded coordinates are those of r
SameKeyAndPlace(r, rows) ==
    {r2 \in SameKey(r, rows) :
        /\ r2.lat.some = r.lat.some /\ r2.lon.some = r.lon.some
        /\ (r.lat.some => (r2.lat.v + 5) \div 10 = (r.lat.v + 5) \div 10)
        /\ (r.lon.some => (r2.lon.v + 5) \div 10 = (r.lon.v + 5) \div 10)}

\* the rows remove_duplicates treats as copies of r in the mode it ran in
Copies(r, rows) ==
    IF handle_conflicts THEN SameKeyAndPlace(r, rows) ELSE SameKey(r, rows)

\* C27: after remove_duplicates in simple mode the Kapital Bank ATM rows hold
\* exactly one row per (company, type, name, address), the most recent one;
\* in coordinate-conflict mode they hold exactly one row per (company, type,
\* name, address, lat and lon rounded to 6 decimals), the most recent of
\* those, so rows of one name and address at different coordinates all stay;
\* in both modes the rows of other companies or types are unchanged.
C27_OneRowPerGroup ==
    pc = "deduplicated" =>
        /\ Others(store) = Others(original)
        /\ KapitalAtm(store) \subseteq KapitalAtm(original)
        /\ \A r \in KapitalAtm(original) :
              /\ Cardinality(Copies(r, KapitalAtm(store))) = 1
              /\ \A s \in Copies(r, KapitalAtm(store)) :
                    MostRecent(s, Copies(r, KapitalAtm(original)))

C27_Witness ==
    /\ pc = "deduplicated"
    /\ handle_conflicts
    /\ Cardinality(original) = 3
    /\ Cardinality(store) = 2
    /\ \E r1, r2 \in KapitalAtm(store) : r1 # r2 /\ ConflictKey(r1) = ConflictKey(r2)

\* ------------------------------------------------------- main of fix.py
\* what the user types at the prompt
Responses == {<<"y">>, <<"Y">>, <<"n">>, << >>, <<"y", "e", "s">>}

\* fix.py is started on any table
InitFix ==
    /\ pc = "analyze"
    /\ store \in Tables
    /\ constraint \in {c \in BOOLEAN : c => NoDuplicates(store)}
    /\ InitScraper
    /\ calls = << >>
    /\ backup_table = NoBackup
    /\ response = << >>
    /\ handle_conflicts = FALSE
    /\ original = store
    /\ query = [user_lat |-> 0, user_lon |-> 0, limit |-> 0, max_distance |-> 0]
    /\ nearby_locations = << >>
    /\ session = NoSession
    /\ sent = << >>

\* what no function of fix.py changes
fix_env == << scraper, calls, original, query, nearby_locations, session, sent >>

\* step 1: without duplicates main returns
analyze_duplicates ==
    /\ pc = "analyze"
    /\ pc' = IF HasDuplicates(store) THEN "check" ELSE "done"
    /\ UNCHANGED << store, constraint, backup_table, response, handle_conflicts, fix_env >>

\* step 2, and the mode main derives from its result
check_coordinate_differences ==
    /\ pc = "check"
    /\ handle_conflicts' = (CoordinateConflicts(store) # {})
    /\ pc' = "input"
    /\ UNCHANGED << store, constraint, backup_table, response, fix_env >>

\* variant: every answer but 'n' goes on
input_unless_n(answer) ==
    /\ pc = "input"
    /\ response' = answer
    /\ pc' = IF Lower(answer) # <<"n">> THEN "backup" ELSE "done"
    /\ UNCHANGED << store, constraint, backup_table, handle_conflicts, fix_env >>

\* step 3: response = input(...); main returns unless response.lower() is 'y'
input(answer) ==
    /\ pc = "input"
    /\ response' = answer
    /\ pc' = IF Lower(answer) # <<"y">> THEN "done" ELSE "backup"
    /\ UNCHANGED << store, constraint, backup_table, handle_conflicts, fix_env >>

\* step 4: CREATE TABLE ... AS SELECT of the Kapital Bank ATM rows, and the
\* commit; when the statement raises (ok = FALSE) main logs 'Fix failed'
create_backup(ok) ==
    /\ pc = "backup"
    /\ IF ok
       THEN /\ backup_table' = [exists |-> TRUE, rows |-> KapitalAtm(store)]
            /\ pc' = "remove"
       ELSE /\ backup_table' = backup_table
            /\ pc' = "failed"
    /\ UNCHANGED << store, constraint, response, handle_conflicts, fix_env >>

\* step 5
remove_duplicates ==
    /\ pc = "remove"
    /\ store' = RemoveDuplicates(store, handle_conflicts)
    /\ pc' = "constraint"
    /\ UNCHANGED << constraint, backup_table, response, handle_conflicts, fix_env >>

\* step 6
add_unique_constraint ==
    /\ pc = "constraint"
    /\ constraint' = AddUniqueConstraint(constraint, store)
    /\ pc' = "verify"
    /\ UNCHANGED << store, backup_table, response, handle_conflicts, fix_env >>

\* step 7 reads and logs; main returns
verify_fix ==
    /\ pc = "verify"
    /\ pc' = "done"
    /\ UNCHANGED << store, constraint, backup_table, response, handle_conflicts, fix_env >>

NextFix ==
    \/ analyze_duplicates
    \/ check_coordinate_differences
    \/ \E answer \in Responses : input(answer)
    \/ \E ok \in BOOLEAN : create_backup(ok)
    \/ remove_duplicates
    \/ add_unique_constraint
    \/ verify_fix

SpecFix == InitFix /\ [][NextFix]_vars

\* the user answered 'y' (in either case)
Answered == Lower(response) = <<"y">>

\* a committed backup table holds a copy of all Kapital Bank ATM rows
BackedUp == backup_table.exists /\ backup_table.rows = KapitalAtm(original)

\* a step that deletes a row or adds the constraint
Writes == store' # store \/ constraint' # constraint

\* C28: fix.py deletes no row and adds no constraint unless the user answered
\* 'y', and then only after a backup table with a copy of all Kapital Bank
\* ATM rows has been created and committed; when the user declines or no
\* duplicates are found the store is left as it was, without a backup table.
C28_ConfirmedAndBackedUp ==
    /\ [][Writes => (Answered /\ BackedUp)]_vars
    /\ [](~Answered => (store = original /\ ~backup_table.exists))

C28_Witness ==
    /\ pc = "done"
    /\ response = <<"Y">>
    /\ BackedUp
    /\ Cardinality(store) < Cardinality(original)
    /\ constraint

\* ------------------------------------------------------- main.py: nearby
MaxLimit == 2

Abs(n) == IF n < 0 THEN 0 - n ELSE n

\* calculate_distance for two points on one meridian, or both on the
\* equator, where the haversine formula gives r * |dlat| (or r * |dlon|):
\* coordinates are held in units of one metre of arc, the result is in metres
calculate_distance(lat1, lon1, lat2, lon2) == Abs(lat2 - lat1) + Abs(lon2 - lon1)

\* round(distance, 2) of a distance in kilometres: the result in units of
\* 0.01 km (no distance of the pool ends in 5 metres)
Round2(distance) == (distance + 5) \div 10

\* rows around the point (0, 0): two that are 3 m apart, one at 2 km, one
\* at 60 km, one without coordinates and one without lon
NearPool ==
    { FixRow(1, 1, "Kapital Bank", "atm", <<"A">>, Some(1004), Some(0)),
      FixRow(2, 1, "Kapital Bank", "atm", <<"B">>, Some(1001), Some(0)),
      FixRow(3, 1, "Kapital Bank", "branch", <<"A">>, Some(0 - 2000), Some(0)),
      FixRow(4, 1, "Kapital Bank", "branch", <<"B">>, Some(0), Some(60000)),
      FixRow(5, 1, "Kapital Bank", "atm", <<"C">>, Absent, Absent),
      FixRow(6, 1, "Kapital Bank", "atm", <<"D">>, Some(1500), Absent) }

\* the arguments: the distances are in metres
Queries ==
    { [user_lat |-> 0, user_lon |-> 0, limit |-> n, max_distance |-> d] :
        n \in 0..MaxLimit, d \in {1002, 50000} }

InitNear ==
    /\ pc = "query"
    /\ store \in {t \in SUBSET NearPool : Cardinality(t) <= MaxRows}
    /\ constraint = NoDuplicates(store)
    /\ InitScraper
    /\ calls = << >>
    /\ backup_table = NoBackup
    /\ response = << >>
    /\ handle_conflicts = FALSE
    /\ original = store
    /\ query \in Queries
    /\ nearby_locations = << >>
    /\ session = NoSession
    /\ sent = << >>

\* the orders in which a SELECT without ORDER BY can return a set of rows
Orders(rows) ==
    {q \in [1..Cardinality(rows) -> rows] :
        \A a, b \in 1..Cardinality(rows) : q[a] = q[b] => a = b}

\* WHERE lat IS NOT NULL AND lon IS NOT NULL
WithCoordinates(rows) == {r \in rows : r.lat.some /\ r.lon.some}

DistanceOf(r, q) == calculate_distance(q.user_lat, q.user_lon, r.lat.v, r.lon.v)

\* the loop: the rows within max_distance, each with its rounded distance
RECURSIVE Filter(_, _)
Filter(locations, q) ==
    IF locations = << >> THEN << >>
    ELSE IF DistanceOf(Head(locations), q) <= q.max_distance
         THEN << [row |-> Head(locations),
                  distance |-> Round2(DistanceOf(Head(locations), q))] >>
              \o Filter(Tail(locations), q)
         ELSE Filter(Tail(locations), q)

\* list.sort(key=lambda x: x['distance']): stable, ascending
RECURSIVE Insert(_, _)
Insert(sorted, x) ==
    IF sorted = << >> THEN << x >>
    ELSE IF x.distance < Head(sorted).distance
         THEN << x >> \o sorted
         ELSE << Head(sorted) >> \o Insert(Tail(sorted), x)

RECURSIVE Sort(_)
Sort(list) ==
    IF list = << >> THEN << >>
    ELSE Insert(Sort(SubSeq(list, 1, Len(list) - 1)), list[Len(list)])

\* nearby_locations[:limit] for a limit that is not negative
Slice(list, limit) == SubSeq(list, 1, IF limit < Len(list) THEN limit ELSE Len(list))

\* get_nearby_locations over the rows in the order the query returned them
get_nearby_locations(locations) ==
    /\ pc = "query"
    /\ nearby_locations' = Slice(Sort(Filter(locations, query)), query.limit)
    /\ pc' = "returned"
    /\ UNCHANGED << store, constraint, scraper, calls, backup_table, response,
                    handle_conflicts, original, query, session, sent >>

NextNear == \E locations \in Orders(WithCoordinates(store)) : get_nearby_locations(locations)

SpecNear == InitNear /\ [][NextNear]_vars

\* the rows of the table that have coordinates and are within max_distance
Within == {r \in WithCoordinates(store) : DistanceOf(r, query) <= query.max_distance}

Returned29 == {nearby_locations[k].row : k \in 1..Len(nearby_locations)}

\* C29: for a limit that is not negative get_nearby_locations returns only
\* rows with lat and lon, each within max_distance of the point, in order of
\* non-decreasing distance from it, at most limit of them and then the limit
\* nearest; the table is not modified.
C29_NearestFirst ==
    pc = "returned" =>
        /\ store = original
        /\ Returned29 \subseteq Within
        /\ Len(nearby_locations) <= query.limit
        /\ Cardinality(Returned29) = Len(nearby_locations)
        /\ Len(nearby_locations) < query.limit => Returned29 = Within
        /\ \A a, b \in 1..Len(nearby_locations) :
              a < b => DistanceOf(nearby_locations[a].row, query)
                          <= DistanceOf(nearby_locations[b].row, query)
        /\ \A r \in Returned29 : \A o \in Within \ Returned29 :
              DistanceOf(r, query) <= DistanceOf(o, query)

\* ------------------------------------------------------- main.py: chat
\* the chat requests of one browser session
MaxRequests == 4

\* session['conversation'][-20:]
KeepLast == 20

\* the 'message' of a request body; " " is empty after strip()
Messages == {<<"a">>, <<"b">>, <<"c">>, <<" ">>}

UserMessage(content) == [role |-> "user", content |-> content]

\* the reply of get_chat_response (the text of the model, or one of its
\* apologies)
AssistantMessage == [role |-> "assistant", content |-> <<"r">>]

\* list[-n:]
Last(list, n) == IF Len(list) > n THEN SubSeq(list, Len(list) - n + 1, Len(list)) ELSE list

InitChat ==
    /\ pc = "serving"
    /\ store = {}
    /\ constraint = TRUE
    /\ InitScraper
    /\ InitTools

\* the session object of one request: opened from the cookie, with Flask's
\* modified flag, which only an assignment to a key of the session sets (an
\* append to the list it holds does not)
OpenSession == [conversation |-> session.conversation, present |-> session.present,
                modified |-> FALSE]

\* if 'conversation' not in session: session['conversation'] = []
GetOrCreate(sess) ==
    IF sess.present THEN sess
    ELSE [conversation |-> << >>, present |-> TRUE, modified |-> TRUE]

\* the two calls session['conversation'].append(...)
Appended(sess, content) ==
    [sess EXCEPT !.conversation = @ \o << UserMessage(content), AssistantMessage >>]

\* if len(session['conversation']) > 20: session['conversation'] = ...[-20:]
Truncated(sess) ==
    IF Len(sess.conversation) > KeepLast
    THEN [sess EXCEPT !.conversation = Last(@, KeepLast), !.modified = TRUE]
    ELSE sess

\* the end of the request: Flask writes the cookie only when the session
\* was modified (the session is not permanent)
SaveSession(sess) ==
    IF sess.modified
    THEN [present |-> sess.present, conversation |-> sess.conversation]
    ELSE session

\* POST /api/chat
chat(message) ==
    /\ pc = "serving"
    /\ Len(sent) < 2 * MaxRequests
    /\ IF Strip(message) = << >>
       THEN UNCHANGED << session, sent >>
       ELSE /\ session' = SaveSession(Truncated(Appended(GetOrCreate(OpenSession), Strip(message))))
            /\ sent' = sent \o << UserMessage(Strip(message)), AssistantMessage >>
    /\ UNCHANGED << pc, store, constraint, scraper, calls, backup_table, response,
                    handle_conflicts, original, query, nearby_locations >>

\* POST /api/clear-chat
clear_chat ==
    /\ pc = "serving"
    /\ session' = SaveSession([conversation |-> << >>, present |-> TRUE, modified |-> TRUE])
    /\ sent' = << >>
    /\ UNCHANGED << pc, store, constraint, scraper, calls, backup_table, response,
                    handle_conflicts, original, query, nearby_locations >>

NextChat ==
    \/ \E message \in Messages : chat(message)
    \/ clear_chat

SpecChat == InitChat /\ [][NextChat]_vars

\* C30: at the end of every request the stored conversation holds the most
\* recent messages exchanged since the last clear, at most 20 of them, in
\* their original order; clear-chat leaves it empty.
C30_LastTwentyKept ==
    /\ Len(session.conversation) <= KeepLast
    /\ session.conversation = Last(sent, KeepLast)

====
